---- MODULE Spec2Model ----
(***************************************************************************)
(* Model of the NHK program-guide clients of src/src/nhk/client.py:        *)
(* ProgramGuide (API v1) and ProgramGuideV3 (radio API v3).                *)
(*                                                                         *)
(* A Python str is a TLA+ string and + / str.format are \o.  A client      *)
(* operation is one action: it resolves its identifiers, builds the URL    *)
(* and the payload, calls requests.get once and decodes the body.  What    *)
(* the network answers is an input of the action.  The state keeps the     *)
(* client instance, the arguments it was constructed with, and a record    *)
(* of the last call: its arguments, the GET requests it issued, the        *)
(* response it received and how it ended.                                  *)
(***************************************************************************)
EXTENDS Naturals, Sequences, FiniteSets, TLC

VARIABLES
    ctor,   \* the class and keyword arguments the instance was built from
    self,   \* the client instance: cls, api_key, url_base
    last,   \* the last call on the instance (op = "none" before the first)
    probe   \* a detect() call on its own: table, input, result

vars == <<ctor, self, last, probe>>

(***************************************************************************)
(* Python values                                                           *)
(***************************************************************************)

\* Python's None (the default api_key), distinct from every string used.
None == "<None>"

\* A keyword argument, or the default of the signature when it is omitted.
Arg(kw, name, default) == IF name \in DOMAIN kw THEN kw[name] ELSE default

\* One decimal digit as text.
Digit(n) ==
    CASE n = 0 -> "0" [] n = 1 -> "1" [] n = 2 -> "2" [] n = 3 -> "3"
      [] n = 4 -> "4" [] n = 5 -> "5" [] n = 6 -> "6" [] n = 7 -> "7"
      [] n = 8 -> "8" [] n = 9 -> "9"

\* strftime's %m and %d: two digits, zero padded.
Pad2(n) == Digit((n \div 10) % 10) \o Digit(n % 10)

\* strftime's %Y for the years 1000..9999: four digits.
Pad4(n) == Pad2(n \div 100) \o Pad2(n % 100)

\* date.strftime('%Y-%m-%d'); a date is <<year, month, day>>.
to_ymd(date) == Pad4(date[1]) \o "-" \o Pad2(date[2]) \o "-" \o Pad2(date[3])

\* sep.join(args)
RECURSIVE Join(_, _)
Join(sep, args) ==
    IF args = <<>> THEN ""
    ELSE IF Len(args) = 1 THEN args[1]
    ELSE args[1] \o sep \o Join(sep, Tail(args))

(***************************************************************************)
(* Code tables and the resolver (nhk/area.py, nhk/service.py and           *)
(* nhk/genre.py: AreaChoices, ServiceChoices, GenreChoices and their       *)
(* detect()).  A table is a sequence of entries with unique codes.         *)
(***************************************************************************)

Entry(code, name, aliases) == [code |-> code, name |-> name, aliases |-> aliases]

AreaChoices ==
    << Entry("130", "Tokyo", {"tokyo"}),
       Entry("270", "Osaka", {}) >>

ServiceChoices ==
    << Entry("g1", "NHK General 1", {"general1"}),
       Entry("n1", "NHK Net Radio 1", {"netradio1"}) >>

GenreChoices ==
    << Entry("0000", "News", {"news"}),
       Entry("0100", "Sports", {}) >>

\* How a call ends: it returns a value or raises an exception.  detail is
\* what the exception carries.
\* A decoded JSON document, and the absence of one.
Json(text) == [json |-> text]
NoValue == [json |-> ""]

Return(value) == [kind |-> "return", exc |-> "", detail |-> "", value |-> value]
Raise(exc, detail) == [kind |-> "raise", exc |-> exc, detail |-> detail, value |-> NoValue]

NoEntry == Entry("", "", {})

\* The indices of the entries whose code is the text.
ByCode(table, text) == {i \in 1..Len(table) : table[i].code = text}

\* The indices of the entries whose name or one of whose aliases is the text.
ByNameOrAlias(table, text) ==
    {i \in 1..Len(table) : table[i].name = text \/ text \in table[i].aliases}

\* The first of a non-empty set of indices.
First(S) == CHOOSE i \in S : \A j \in S : i <= j

\* detect with the name and alias match tried first.
DetectNameFirst(table, input) ==
    IF ByNameOrAlias(table, input) # {}
    THEN [raised |-> FALSE, entry |-> table[First(ByNameOrAlias(table, input))],
          exc |-> Return(NoValue)]
    ELSE IF ByCode(table, input) # {}
    THEN [raised |-> FALSE, entry |-> table[First(ByCode(table, input))],
          exc |-> Return(NoValue)]
    ELSE [raised |-> TRUE, entry |-> NoEntry,
          exc |-> Raise("UnknownIdentifier", input)]

\* detect(table, input): the entry with that code, else the first entry with
\* that name or alias, else UnknownIdentifier carrying the input.
Detect(table, input) ==
    IF ByCode(table, input) # {}
    THEN [raised |-> FALSE, entry |-> table[First(ByCode(table, input))],
          exc |-> Return(NoValue)]
    ELSE IF ByNameOrAlias(table, input) # {}
    THEN [raised |-> FALSE, entry |-> table[First(ByNameOrAlias(table, input))],
          exc |-> Return(NoValue)]
    ELSE [raised |-> TRUE, entry |-> NoEntry,
          exc |-> Raise("UnknownIdentifier", input)]

(***************************************************************************)
(* The transport: requests.get(url, params=payload) and response.json().   *)
(***************************************************************************)

\* What the network can answer to a GET: the connection fails, or a response
\* arrives with a status and a body that is or is not a JSON document.
Answer(error, status, valid, doc) ==
    [error |-> error, status |-> status, body |-> [valid |-> valid, doc |-> doc]]

Answers ==
    { Answer("ConnectionError", 0, FALSE, ""),
      Answer("", 200, TRUE, "{list: ...}"),
      Answer("", 200, FALSE, "<html>"),
      Answer("", 404, TRUE, "{error: ...}") }

NoAnswer == Answer("", 0, FALSE, "")

\* What one call did: the GETs it issued, the answer it got, how it ended.
Ended(requests, answer, outcome) ==
    [requests |-> requests, answer |-> answer, outcome |-> outcome]

\* A call that raised exc before it reached requests.get.
Raised(exc) == Ended(<<>>, NoAnswer, exc)

\* fetch that asks a second time when the first GET failed.
FetchRetry(url, payload, net) ==
    Ended(IF net.error # ""
          THEN << [url |-> url, params |-> payload], [url |-> url, params |-> payload] >>
          ELSE << [url |-> url, params |-> payload] >>,
          net,
          IF net.error # "" THEN Raise("TransportError", net.error)
          ELSE IF ~net.body.valid THEN Raise("ParseError", net.body.doc)
          ELSE Return(Json(net.body.doc)))

\* response = requests.get(url, params=payload); return response.json()
\* requests.get raises only when no response arrives; the status of a
\* response is not looked at; json() raises when the body is no JSON.
Fetch(url, payload, net) ==
    Ended(<< [url |-> url, params |-> payload] >>, net,
          IF net.error # "" THEN Raise("TransportError", net.error)
          ELSE IF ~net.body.valid THEN Raise("ParseError", net.body.doc)
          ELSE Return(Json(net.body.doc)))

(***************************************************************************)
(* class ProgramGuide (API v1)                                             *)
(***************************************************************************)

\* ProgramGuide.__init__(api_key=None, domain='api.nhk.or.jp',
\*                       version='v1', secure=False)
ProgramGuide_init(kw) ==
    LET scheme == IF Arg(kw, "secure", FALSE) THEN "https" ELSE "http"
    IN  [cls |-> "ProgramGuide",
         api_key |-> Arg(kw, "api_key", None),
         url_base |-> scheme \o "://" \o Arg(kw, "domain", "api.nhk.or.jp")
                      \o "/" \o Arg(kw, "version", "v1") \o "/"]

\* _build_url that forgets the suffix.
ProgramGuide_build_url_NoSuffix(this, args) ==
    this.url_base \o Join("/", args)

\* ProgramGuide._build_url(*args)
ProgramGuide_build_url(this, args) ==
    this.url_base \o Join("/", args) \o ".json"

\* ProgramGuide.pg_list(area, service, date)
pg_list(this, area, service, date, net) ==
    LET a == Detect(AreaChoices, area)
        s == Detect(ServiceChoices, service)
    IN  IF a.raised THEN Raised(a.exc)
        ELSE IF s.raised THEN Raised(s.exc)
        ELSE Fetch(ProgramGuide_build_url(this,
                       <<"pg", "list", a.entry.code, s.entry.code, to_ymd(date)>>),
                   "key" :> this.api_key, net)

\* pg_genre that sends the genre as the caller gave it when it is unknown.
pg_genre_Lenient(this, area, service, genre, date, net) ==
    LET a == Detect(AreaChoices, area)
        s == Detect(ServiceChoices, service)
        g == Detect(GenreChoices, genre)
    IN  IF a.raised THEN Raised(a.exc)
        ELSE IF s.raised THEN Raised(s.exc)
        ELSE Fetch(ProgramGuide_build_url(this,
                       <<"pg", "genre", a.entry.code, s.entry.code,
                         IF g.raised THEN genre ELSE g.entry.code, to_ymd(date)>>),
                   "key" :> this.api_key, net)

\* ProgramGuide.pg_genre(area, service, genre, date)
pg_genre(this, area, service, genre, date, net) ==
    LET a == Detect(AreaChoices, area)
        s == Detect(ServiceChoices, service)
        g == Detect(GenreChoices, genre)
    IN  IF a.raised THEN Raised(a.exc)
        ELSE IF s.raised THEN Raised(s.exc)
        ELSE IF g.raised THEN Raised(g.exc)
        ELSE Fetch(ProgramGuide_build_url(this,
                       <<"pg", "genre", a.entry.code, s.entry.code, g.entry.code,
                         to_ymd(date)>>),
                   "key" :> this.api_key, net)

\* ProgramGuide.pg_info(area, service, program_id)
pg_info(this, area, service, program_id, net) ==
    LET a == Detect(AreaChoices, area)
        s == Detect(ServiceChoices, service)
    IN  IF a.raised THEN Raised(a.exc)
        ELSE IF s.raised THEN Raised(s.exc)
        ELSE Fetch(ProgramGuide_build_url(this,
                       <<"pg", "info", a.entry.code, s.entry.code, program_id>>),
                   "key" :> this.api_key, net)

\* ProgramGuide.pg_now(area, service)
pg_now(this, area, service, net) ==
    LET a == Detect(AreaChoices, area)
        s == Detect(ServiceChoices, service)
    IN  IF a.raised THEN Raised(a.exc)
        ELSE IF s.raised THEN Raised(s.exc)
        ELSE Fetch(ProgramGuide_build_url(this,
                       <<"pg", "now", a.entry.code, s.entry.code>>),
                   "key" :> this.api_key, net)

(***************************************************************************)
(* class ProgramGuideV3 (radio API v3)                                     *)
(***************************************************************************)

\* __init__ that ignores secure and always takes https.
ProgramGuideV3_init_AlwaysSecure(kw) ==
    [cls |-> "ProgramGuideV3",
     api_key |-> Arg(kw, "api_key", None),
     url_base |-> "https" \o "://" \o Arg(kw, "domain", "program-api.nhk.jp")
                  \o "/" \o "v3" \o "/"]

\* ProgramGuideV3.__init__(api_key=None, domain='program-api.nhk.jp',
\*                         secure=True)
ProgramGuideV3_init(kw) ==
    LET scheme == IF Arg(kw, "secure", TRUE) THEN "https" ELSE "http"
    IN  [cls |-> "ProgramGuideV3",
         api_key |-> Arg(kw, "api_key", None),
         url_base |-> scheme \o "://" \o Arg(kw, "domain", "program-api.nhk.jp")
                      \o "/" \o "v3" \o "/"]

\* ProgramGuideV3._build_url(api)
ProgramGuideV3_build_url(this, api) ==
    this.url_base \o api

\* pg_date_radio that sends the identifiers as the caller gave them.
pg_date_radio_Unresolved(this, area, service, date, net) ==
    LET a == Detect(AreaChoices, area)
        s == Detect(ServiceChoices, service)
    IN  IF a.raised THEN Raised(a.exc)
        ELSE IF s.raised THEN Raised(s.exc)
        ELSE Fetch(ProgramGuideV3_build_url(this, "papiPgDateRadio"),
                   ("service" :> service) @@ ("area" :> area)
                     @@ ("date" :> to_ymd(date)) @@ ("key" :> this.api_key),
                   net)

\* ProgramGuideV3.pg_date_radio(area, service, date)
pg_date_radio(this, area, service, date, net) ==
    LET a == Detect(AreaChoices, area)
        s == Detect(ServiceChoices, service)
    IN  IF a.raised THEN Raised(a.exc)
        ELSE IF s.raised THEN Raised(s.exc)
        ELSE Fetch(ProgramGuideV3_build_url(this, "papiPgDateRadio"),
                   ("service" :> s.entry.code) @@ ("area" :> a.entry.code)
                     @@ ("date" :> to_ymd(date)) @@ ("key" :> this.api_key),
                   net)

\* ProgramGuideV3.pg_genre_radio(area, service, genre, date)
pg_genre_radio(this, area, service, genre, date, net) ==
    LET a == Detect(AreaChoices, area)
        s == Detect(ServiceChoices, service)
        g == Detect(GenreChoices, genre)
    IN  IF a.raised THEN Raised(a.exc)
        ELSE IF s.raised THEN Raised(s.exc)
        ELSE IF g.raised THEN Raised(g.exc)
        ELSE Fetch(ProgramGuideV3_build_url(this, "papiPgGenreRadio"),
                   ("service" :> s.entry.code) @@ ("area" :> a.entry.code)
                     @@ ("genre" :> g.entry.code)
                     @@ ("date" :> to_ymd(date)) @@ ("key" :> this.api_key),
                   net)

\* ProgramGuideV3.pg_now_radio(area, service)
pg_now_radio(this, area, service, net) ==
    LET a == Detect(AreaChoices, area)
        s == Detect(ServiceChoices, service)
    IN  IF a.raised THEN Raised(a.exc)
        ELSE IF s.raised THEN Raised(s.exc)
        ELSE Fetch(ProgramGuideV3_build_url(this, "ppapiPgNowRadio"),
                   ("service" :> s.entry.code) @@ ("area" :> a.entry.code)
                     @@ ("key" :> this.api_key),
                   net)

\* broadcast_event_radio that takes the program id for the whole identifier.
broadcast_event_radio_Literal(this, area, service, program_id, net) ==
    LET a == Detect(AreaChoices, area)
        s == Detect(ServiceChoices, service)
    IN  IF a.raised THEN Raised(a.exc)
        ELSE IF s.raised THEN Raised(s.exc)
        ELSE Fetch(ProgramGuideV3_build_url(this, "papiBroadcastEventRadio"),
                   ("broadcastEventId" :> program_id) @@ ("key" :> this.api_key),
                   net)

\* ProgramGuideV3.broadcast_event_radio(area, service, program_id)
broadcast_event_radio(this, area, service, program_id, net) ==
    LET a == Detect(AreaChoices, area)
        s == Detect(ServiceChoices, service)
    IN  IF a.raised THEN Raised(a.exc)
        ELSE IF s.raised THEN Raised(s.exc)
        ELSE Fetch(ProgramGuideV3_build_url(this, "papiBroadcastEventRadio"),
                   ("broadcastEventId" :>
                        s.entry.code \o "-" \o a.entry.code \o "-" \o program_id)
                     @@ ("key" :> this.api_key),
                   net)

(***************************************************************************)
(* The inputs of the model                                                 *)
(***************************************************************************)

\* A keyword argument that is omitted or given one of the values.
Opt(name, values) == {<<>>} \cup {name :> v : v \in values}

\* The keyword arguments of the constructions: every choice of domain,
\* version and secure with an API key, and the construction with none.
ProgramGuideKwargs ==
    {<<>>} \cup
    {("api_key" :> "k3y") @@ d @@ v @@ s : d \in Opt("domain", {"example.test"}),
                                          v \in Opt("version", {"v2"}),
                                          s \in Opt("secure", {TRUE, FALSE})}

ProgramGuideV3Kwargs ==
    {<<>>} \cup
    {("api_key" :> "k3y") @@ d @@ s : d \in Opt("domain", {"example.test"}),
                                     s \in Opt("secure", {TRUE, FALSE})}

\* A code, an alias or a name, and a text no table knows.
Areas == {"130", "tokyo", "Atlantis"}
Services == {"g1", "n1", "zz"}
Genres == {"0000", "Sports", "Cooking"}
Dates == {<<2024, 1, 2>>, <<2025, 12, 31>>}
ProgramIds == {"2024010203456", "ev 1"}

\* The tables and inputs detect() is probed with.
MaxEntries == 2
MaxAliases == 1
Texts == {"a", "b", "c"}
Inputs == Texts \cup {"not-a-real-code-or-name"}

Entries ==
    {Entry(c, n, al) : c \in Texts, n \in Texts,
                       al \in {A \in SUBSET Texts : Cardinality(A) <= MaxAliases}}

Tables ==
    {t \in UNION {[1..n -> Entries] : n \in 0..MaxEntries} :
        \A i, j \in 1..Len(t) : t[i].code = t[j].code => i = j}

(***************************************************************************)
(* The state machine of a client instance                                  *)
(***************************************************************************)

Construct(c) ==
    IF c.cls = "ProgramGuide" THEN ProgramGuide_init(c.kw)
    ELSE ProgramGuideV3_init(c.kw)

\* The record of a call: its arguments ("" and <<>> for those the operation
\* does not take) and what it did.
Called(op, area, service, genre, date, program_id, did) ==
    [op |-> op, area |-> area, service |-> service, genre |-> genre,
     date |-> date, program_id |-> program_id,
     requests |-> did.requests, answer |-> did.answer, outcome |-> did.outcome]

NoCall == Called("none", "", "", "", <<>>, "", Raised(Return(NoValue)))

NoResult == [raised |-> FALSE, entry |-> NoEntry, exc |-> Return(NoValue)]

NoProbe == [table |-> <<>>, input |-> "", done |-> FALSE, result |-> NoResult]

Init ==
    /\ ctor \in [cls : {"ProgramGuide"}, kw : ProgramGuideKwargs]
                \cup [cls : {"ProgramGuideV3"}, kw : ProgramGuideV3Kwargs]
    /\ self = Construct(ctor)
    /\ last = NoCall
    /\ probe = NoProbe

PgList ==
    /\ self.cls = "ProgramGuide"
    /\ \E area \in Areas, service \in Services, date \in Dates, net \in Answers :
         last' = Called("pg_list", area, service, "", date, "",
                        pg_list(self, area, service, date, net))
    /\ UNCHANGED <<ctor, self, probe>>

PgGenre ==
    /\ self.cls = "ProgramGuide"
    /\ \E area \in Areas, service \in Services, genre \in Genres,
          date \in Dates, net \in Answers :
         last' = Called("pg_genre", area, service, genre, date, "",
                        pg_genre(self, area, service, genre, date, net))
    /\ UNCHANGED <<ctor, self, probe>>

PgInfo ==
    /\ self.cls = "ProgramGuide"
    /\ \E area \in Areas, service \in Services, program_id \in ProgramIds,
          net \in Answers :
         last' = Called("pg_info", area, service, "", <<>>, program_id,
                        pg_info(self, area, service, program_id, net))
    /\ UNCHANGED <<ctor, self, probe>>

\* pg_now that keeps the URL it built as the instance's url_base.
PgNowKeepsUrl ==
    /\ self.cls = "ProgramGuide"
    /\ \E area \in Areas, service \in Services, net \in Answers :
         /\ last' = Called("pg_now", area, service, "", <<>>, "",
                           pg_now(self, area, service, net))
         /\ self' = IF last'.requests = <<>> THEN self
                    ELSE [self EXCEPT !.url_base = last'.requests[1].url]
    /\ UNCHANGED <<ctor, probe>>

PgNow ==
    /\ self.cls = "ProgramGuide"
    /\ \E area \in Areas, service \in Services, net \in Answers :
         last' = Called("pg_now", area, service, "", <<>>, "",
                        pg_now(self, area, service, net))
    /\ UNCHANGED <<ctor, self, probe>>

PgDateRadio ==
    /\ self.cls = "ProgramGuideV3"
    /\ \E area \in Areas, service \in Services, date \in Dates, net \in Answers :
         last' = Called("pg_date_radio", area, service, "", date, "",
                        pg_date_radio(self, area, service, date, net))
    /\ UNCHANGED <<ctor, self, probe>>

PgGenreRadio ==
    /\ self.cls = "ProgramGuideV3"
    /\ \E area \in Areas, service \in Services, genre \in Genres,
          date \in Dates, net \in Answers :
         last' = Called("pg_genre_radio", area, service, genre, date, "",
                        pg_genre_radio(self, area, service, genre, date, net))
    /\ UNCHANGED <<ctor, self, probe>>

PgNowRadio ==
    /\ self.cls = "ProgramGuideV3"
    /\ \E area \in Areas, service \in Services, net \in Answers :
         last' = Called("pg_now_radio", area, service, "", <<>>, "",
                        pg_now_radio(self, area, service, net))
    /\ UNCHANGED <<ctor, self, probe>>

BroadcastEventRadio ==
    /\ self.cls = "ProgramGuideV3"
    /\ \E area \in Areas, service \in Services, program_id \in ProgramIds,
          net \in Answers :
         last' = Called("broadcast_event_radio", area, service, "", <<>>, program_id,
                        broadcast_event_radio(self, area, service, program_id, net))
    /\ UNCHANGED <<ctor, self, probe>>

Next ==
    \/ PgList
    \/ PgGenre
    \/ PgInfo
    \/ PgNow
    \/ PgDateRadio
    \/ PgGenreRadio
    \/ PgNowRadio
    \/ BroadcastEventRadio

Spec == Init /\ [][Next]_vars

(***************************************************************************)
(* detect() on its own, over every small table                             *)
(***************************************************************************)

InitDetect ==
    /\ ctor = [cls |-> "ProgramGuide", kw |-> <<>>]
    /\ self = Construct(ctor)
    /\ last = NoCall
    /\ \E t \in Tables, x \in Inputs :
         probe = [table |-> t, input |-> x, done |-> FALSE, result |-> NoResult]

DetectCall ==
    /\ ~probe.done
    /\ probe' = [probe EXCEPT !.done = TRUE,
                              !.result = Detect(probe.table, probe.input)]
    /\ UNCHANGED <<ctor, self, last>>

NextDetect == DetectCall

SpecDetect == InitDetect /\ [][NextDetect]_vars

(***************************************************************************)
(* What the properties are stated with                                     *)
(***************************************************************************)

\* The canonical code of each identifier the tables know, written out.
Canon ==
    ("130" :> "130") @@ ("tokyo" :> "130") @@ ("g1" :> "g1") @@ ("n1" :> "n1")
      @@ ("0000" :> "0000") @@ ("Sports" :> "0100")

\* The dates of the model as the API wants them.
DateText == (<<2024, 1, 2>> :> "2024-01-02") @@ (<<2025, 12, 31>> :> "2025-12-31")

V1Ops == {"pg_list", "pg_genre", "pg_info", "pg_now"}
V3Ops == {"pg_date_radio", "pg_genre_radio", "pg_now_radio", "broadcast_event_radio"}
TakesGenre(op) == op \in {"pg_genre", "pg_genre_radio"}

\* Every identifier the call was given is known to its table.
ArgsResolve(c) ==
    /\ c.op # "none"
    /\ c.area \in DOMAIN Canon
    /\ c.service \in DOMAIN Canon
    /\ TakesGenre(c.op) => c.genre \in DOMAIN Canon

\* The constructor arguments in effect, defaults filled in.
KeyOf(c) == IF "api_key" \in DOMAIN c.kw THEN c.kw["api_key"] ELSE None
SecureOf(c) ==
    IF "secure" \in DOMAIN c.kw THEN c.kw["secure"] ELSE c.cls = "ProgramGuideV3"
DomainOf(c) ==
    IF "domain" \in DOMAIN c.kw THEN c.kw["domain"]
    ELSE IF c.cls = "ProgramGuide" THEN "api.nhk.or.jp" ELSE "program-api.nhk.jp"
VersionOf(c) ==
    IF c.cls = "ProgramGuideV3" THEN "v3"
    ELSE IF "version" \in DOMAIN c.kw THEN c.kw["version"] ELSE "v1"
SchemeOf(c) == IF SecureOf(c) THEN "https" ELSE "http"

\* The call c made again on the instance this, with the network answering net.
Again(this, c, net) ==
    CASE c.op = "pg_list" -> pg_list(this, c.area, c.service, c.date, net)
      [] c.op = "pg_genre" -> pg_genre(this, c.area, c.service, c.genre, c.date, net)
      [] c.op = "pg_info" -> pg_info(this, c.area, c.service, c.program_id, net)
      [] c.op = "pg_now" -> pg_now(this, c.area, c.service, net)
      [] c.op = "pg_date_radio" ->
             pg_date_radio(this, c.area, c.service, c.date, net)
      [] c.op = "pg_genre_radio" ->
             pg_genre_radio(this, c.area, c.service, c.genre, c.date, net)
      [] c.op = "pg_now_radio" -> pg_now_radio(this, c.area, c.service, net)
      [] c.op = "broadcast_event_radio" ->
             broadcast_event_radio(this, c.area, c.service, c.program_id, net)

(***************************************************************************)
(* Properties                                                              *)
(***************************************************************************)

\* C1: a call one of whose area, service or genre arguments does not resolve
\* ends in UnknownIdentifier and has issued no GET request.
C1_FailFast ==
    (last.op # "none" /\ ~ArgsResolve(last)) =>
        /\ last.outcome.kind = "raise"
        /\ last.outcome.exc = "UnknownIdentifier"
        /\ last.requests = <<>>

\* A pg_genre call whose area and service resolve and whose genre does not.
C1_Witness ==
    /\ last.op = "pg_genre"
    /\ last.area = "tokyo" /\ last.service = "g1" /\ last.genre = "Cooking"
    /\ last.outcome.exc = "UnknownIdentifier"
    /\ last.outcome.detail = "Cooking"
    /\ last.requests = <<>>

\* The path of a v1 request after the version: the segments in their order.
V1Path(c) ==
    "pg/" \o
    (CASE c.op = "pg_list" ->
            "list/" \o Canon[c.area] \o "/" \o Canon[c.service] \o "/" \o DateText[c.date]
       [] c.op = "pg_genre" ->
            "genre/" \o Canon[c.area] \o "/" \o Canon[c.service] \o "/"
                \o Canon[c.genre] \o "/" \o DateText[c.date]
       [] c.op = "pg_info" ->
            "info/" \o Canon[c.area] \o "/" \o Canon[c.service] \o "/" \o c.program_id
       [] c.op = "pg_now" ->
            "now/" \o Canon[c.area] \o "/" \o Canon[c.service])
    \o ".json"

\* C2: a v1 call whose identifiers resolve requests exactly
\* scheme://domain/version/pg/<operation>/<area>/<service>[/...].json with the
\* API key as the only parameter, 'key'; with the default construction
\* pg_list('130', 'g1', 2024-01-02) requests
\* http://api.nhk.or.jp/v1/pg/list/130/g1/2024-01-02.json.
C2_V1Url ==
    (last.op \in V1Ops /\ ArgsResolve(last)) =>
        /\ Len(last.requests) = 1
        /\ last.requests[1].url =
               SchemeOf(ctor) \o "://" \o DomainOf(ctor) \o "/" \o VersionOf(ctor)
                   \o "/" \o V1Path(last)
        /\ last.requests[1].params = ("key" :> KeyOf(ctor))
        /\ ( /\ DOMAIN ctor.kw \subseteq {"api_key"}
             /\ last.op = "pg_list" /\ last.area = "130" /\ last.service = "g1"
             /\ last.date = <<2024, 1, 2>> )
           => last.requests[1].url =
                  "http://api.nhk.or.jp/v1/pg/list/130/g1/2024-01-02.json"

\* The example of the specification, requested.
C2_Witness ==
    /\ ctor.cls = "ProgramGuide" /\ ctor.kw = <<>>
    /\ last.op = "pg_list" /\ last.area = "130" /\ last.service = "g1"
    /\ last.date = <<2024, 1, 2>>
    /\ Len(last.requests) = 1
    /\ last.requests[1].url = "http://api.nhk.or.jp/v1/pg/list/130/g1/2024-01-02.json"

\* The parameters a v3 call sends.
V3Params(c, key) ==
    CASE c.op = "pg_date_radio" ->
            ("service" :> Canon[c.service]) @@ ("area" :> Canon[c.area])
              @@ ("date" :> DateText[c.date]) @@ ("key" :> key)
      [] c.op = "pg_genre_radio" ->
            ("service" :> Canon[c.service]) @@ ("area" :> Canon[c.area])
              @@ ("genre" :> Canon[c.genre])
              @@ ("date" :> DateText[c.date]) @@ ("key" :> key)
      [] c.op = "pg_now_radio" ->
            ("service" :> Canon[c.service]) @@ ("area" :> Canon[c.area])
              @@ ("key" :> key)
      [] c.op = "broadcast_event_radio" ->
            ("broadcastEventId" :>
                 Canon[c.service] \o "-" \o Canon[c.area] \o "-" \o c.program_id)
              @@ ("key" :> key)

\* The names a v3 path ends in: one segment each.
SegmentNames ==
    {"papiPgDateRadio", "papiPgGenreRadio", "papiPgNowRadio", "ppapiPgNowRadio",
     "papiBroadcastEventRadio"}

\* The same operation with every other choice of arguments.
OtherCalls(c) ==
    {[c EXCEPT !.area = a, !.service = s,
               !.genre = IF TakesGenre(c.op) THEN g ELSE "",
               !.date = IF c.date = <<>> THEN <<>> ELSE d,
               !.program_id = IF c.program_id = "" THEN "" ELSE p] :
        a \in Areas, s \in Services, g \in Genres, d \in Dates, p \in ProgramIds}

\* C3: a v3 call whose identifiers resolve requests url_base plus one endpoint
\* name, the same whatever the arguments, and sends exactly its identifying
\* parameters and 'key', with the canonical codes as values;
\* pg_date_radio('130', 'n1', 2024-01-02) on the default construction requests
\* https://program-api.nhk.jp/v3/papiPgDateRadio with service=n1, area=130,
\* date=2024-01-02 and key.
C3_V3Request ==
    (last.op \in V3Ops /\ ArgsResolve(last)) =>
        /\ Len(last.requests) = 1
        /\ \E api \in SegmentNames : last.requests[1].url = self.url_base \o api
        /\ \A o \in OtherCalls(last) :
             LET did == Again(self, o, last.answer)
             IN  did.requests # <<>> => did.requests[1].url = last.requests[1].url
        /\ last.requests[1].params = V3Params(last, KeyOf(ctor))
        /\ ( /\ DOMAIN ctor.kw \subseteq {"api_key"}
             /\ last.op = "pg_date_radio" /\ last.area = "130"
             /\ last.service = "n1" /\ last.date = <<2024, 1, 2>> )
           => /\ last.requests[1].url = "https://program-api.nhk.jp/v3/papiPgDateRadio"
              /\ last.requests[1].params =
                     [service |-> "n1", area |-> "130", date |-> "2024-01-02",
                      key |-> KeyOf(ctor)]

\* pg_genre_radio given an alias and a name sends their codes.
C3_Witness ==
    /\ last.op = "pg_genre_radio"
    /\ last.area = "tokyo" /\ last.genre = "Sports" /\ last.service = "n1"
    /\ Len(last.requests) = 1
    /\ last.requests[1].params["area"] = "130"
    /\ last.requests[1].params["genre"] = "0100"

\* C4 as stated: broadcast_event_radio sends the identifier it was given
\* verbatim as 'broadcastEventId' and never fails with UnknownIdentifier.
C4_Original ==
    last.op = "broadcast_event_radio" =>
        /\ last.outcome.exc # "UnknownIdentifier"
        /\ last.requests # <<>> =>
               last.requests[1].params["broadcastEventId"] = last.program_id

\* C4, amended: broadcast_event_radio(area, service, program_id) resolves area
\* and service, failing with UnknownIdentifier and no GET when one is unknown,
\* and otherwise sends 'broadcastEventId' = <service code>-<area code>-<program_id>
\* with program_id verbatim.
C4_Composed ==
    last.op = "broadcast_event_radio" =>
        IF ArgsResolve(last)
        THEN /\ Len(last.requests) = 1
             /\ last.requests[1].params["broadcastEventId"] =
                    Canon[last.service] \o "-" \o Canon[last.area] \o "-"
                        \o last.program_id
        ELSE /\ last.outcome.exc = "UnknownIdentifier"
             /\ last.requests = <<>>

\* broadcast_event_radio('tokyo', 'n1', 'ev 1') has sent n1-130-ev 1.
C4_Witness ==
    /\ last.op = "broadcast_event_radio"
    /\ last.area = "tokyo" /\ last.service = "n1" /\ last.program_id = "ev 1"
    /\ Len(last.requests) = 1
    /\ last.requests[1].params["broadcastEventId"] = "n1-130-ev 1"

\* C5 as stated: however a ProgramGuideV3 is constructed, every URL it
\* requests starts with https:// and has the version segment v3.
C5_Original ==
    (ctor.cls = "ProgramGuideV3" /\ last.requests # <<>>) =>
        \E api \in SegmentNames :
            last.requests[1].url = "https://" \o DomainOf(ctor) \o "/v3/" \o api

\* C5, amended: every URL a ProgramGuideV3 requests has the version segment
\* v3, and starts with https:// when secure is omitted or true and with
\* http:// when secure=False is passed.
C5_SchemeFollowsSecure ==
    (ctor.cls = "ProgramGuideV3" /\ last.requests # <<>>) =>
        \E api \in SegmentNames :
            last.requests[1].url =
                (IF "secure" \in DOMAIN ctor.kw /\ ~ctor.kw["secure"]
                 THEN "http://" ELSE "https://")
                \o DomainOf(ctor) \o "/v3/" \o api

\* A ProgramGuideV3 built with secure=False has requested an http:// URL.
C5_Witness ==
    /\ ctor.cls = "ProgramGuideV3"
    /\ "secure" \in DOMAIN ctor.kw /\ ~ctor.kw["secure"]
    /\ "domain" \notin DOMAIN ctor.kw
    /\ last.op = "pg_date_radio"
    /\ last.requests # <<>>
    /\ last.requests[1].url = "http://program-api.nhk.jp/v3/papiPgDateRadio"

\* C6: a call whose GET ends in a network error or a status outside 2xx, or
\* whose body is no JSON, ends in that failure and returns no value.
C6_FailsOnBadResponse ==
    ( /\ last.requests # <<>>
      /\ \/ last.answer.error # ""
         \/ last.answer.status < 200
         \/ last.answer.status > 299
         \/ ~last.answer.body.valid )
    => /\ last.outcome.kind = "raise"
       /\ last.outcome.value = NoValue

\* C7: a call whose identifiers resolve issues exactly one GET, whatever the
\* answer.
C7_OneGet == ArgsResolve(last) => Len(last.requests) = 1

\* A call whose GET failed on the network, with its one request.
C7_Witness ==
    /\ last.op = "pg_now"
    /\ last.answer.error = "ConnectionError"
    /\ last.outcome.exc = "TransportError"
    /\ Len(last.requests) = 1

\* C8: after any calls the instance's api_key and url_base are those its
\* constructor set, and what the last call requested is what the call
\* requests on a freshly constructed instance.
C8_InstanceUnchanged ==
    /\ self.api_key = KeyOf(ctor)
    /\ self.url_base = SchemeOf(ctor) \o "://" \o DomainOf(ctor) \o "/"
                           \o VersionOf(ctor) \o "/"
    /\ last.op # "none" =>
           last.requests = Again(Construct(ctor), last, last.answer).requests

\* After a pg_now call that failed to decode, the instance is as constructed.
C8_Witness ==
    /\ last.op = "pg_now"
    /\ last.outcome.exc = "ParseError"
    /\ self = Construct(ctor)
    /\ self.url_base = "https://example.test/v2/"

\* C9: detect returns the entry whose code is the input when there is one,
\* also when the input is the name or an alias of another entry; else an
\* entry whose name or alias is the input; else it fails with
\* UnknownIdentifier carrying the input.
C9_Detect ==
    probe.done =>
        LET t == probe.table
            x == probe.input
            r == probe.result
        IN  /\ \A i \in 1..Len(t) : t[i].code = x => (~r.raised /\ r.entry = t[i])
            /\ ((\A i \in 1..Len(t) : t[i].code # x) /\ ~r.raised) =>
                   /\ \E i \in 1..Len(t) : r.entry = t[i]
                   /\ r.entry.name = x \/ x \in r.entry.aliases
            /\ r.raised <=>
                   \A i \in 1..Len(t) :
                       t[i].code # x /\ t[i].name # x /\ x \notin t[i].aliases
            /\ r.raised =>
                   r.exc.exc = "UnknownIdentifier" /\ r.exc.detail = x

\* The input is the name of the first entry and the code of the second, and
\* detect has returned the second.
C9_Witness ==
    /\ probe.done
    /\ Len(probe.table) = 2
    /\ probe.table[1].name = probe.input
    /\ probe.table[2].code = probe.input
    /\ probe.result.entry = probe.table[2]

\* The endpoint names of the v3 operations: papi<Operation>Radio.
PapiName ==
    [pg_date_radio |-> "papiPgDateRadio", pg_genre_radio |-> "papiPgGenreRadio",
     pg_now_radio |-> "papiPgNowRadio",
     broadcast_event_radio |-> "papiBroadcastEventRadio"]

\* C10: every v3 operation requests url_base followed by its papi...Radio
\* name and nothing more.
C10_EndpointNames ==
    (last.op \in V3Ops /\ last.requests # <<>>) =>
        last.requests[1].url = self.url_base \o PapiName[last.op]

====
